---- MODULE Spec2Model ----
(***************************************************************************)
(* Shadow framebuffer refresh of the Cirrus driver                         *)
(* (driver/xf86-video-cirrus/src/cir_shadow.c): the plain rectangle copier *)
(* cirRefreshArea, the rotating copiers cirRefreshArea8/16/24/32 and the   *)
(* pointer transform cirPointerMoved.                                      *)
(*                                                                         *)
(* Memory is modelled byte by byte.  ShadowPtr and FbBase are functions    *)
(* from byte offsets to bytes; every load and store of a refresh call is   *)
(* recorded in `trace` with the byte offset the pointer arithmetic of the  *)
(* code gives it, also when that offset lies outside the buffer.           *)
(***************************************************************************)
EXTENDS Integers, Sequences, FiniteSets, TLC

(* Bounds of the model: the largest shadow buffer (in pixels) of the      *)
(* single-box runs, the largest buffer and longest box list of the runs   *)
(* with box lists, and the largest side of a round-trip buffer.            *)
MaxW == 2
MaxH == 8
ListW == 2
ListH == 2
MaxBoxes == 2
RTMax == 8

VARIABLES
    bitsPerPixel,   \* pScrn->bitsPerPixel
    displayWidth,   \* pScrn->displayWidth
    virtualX,       \* pScrn->virtualX
    virtualY,       \* pScrn->virtualY
    scrWidth,       \* pScrn->pScreen->width
    scrHeight,      \* pScrn->pScreen->height
    rotate,         \* pCir->rotate: 0, 1 (Rotate90) or -1 (Rotate270)
    ShadowPitch,    \* pCir->ShadowPitch
    ShadowPtr,      \* the bytes at pCir->ShadowPtr
    FbBase,         \* the bytes at pCir->FbBase
    pc,             \* "idle" before the call, the function's name after it
    pbox,           \* the box list of the call (num = Len(pbox))
    arg,            \* the (x, y) handed to cirPointerMoved
    fbEntry,        \* FbBase when the call was entered
    trace,          \* the stores of the call, in program order
    PointerMoved,   \* the calls made to (*pCir->PointerMoved)
    orig,           \* history: the shadow buffer the adapter was set up with
    params,         \* gen6_blorp_exec: the fields of *params the function reads
    at,             \* gen6_blorp_exec: the call about to be made
    batch,          \* gen6_blorp_exec: the packets emitted to brw->batch, in order
    dynamic         \* gen6_blorp_exec: the state allocated with brw_state_batch

vars == <<bitsPerPixel, displayWidth, virtualX, virtualY, scrWidth, scrHeight,
          rotate, ShadowPitch, ShadowPtr, FbBase, pc, pbox, arg, fbEntry,
          trace, PointerMoved, orig, params, at, batch, dynamic>>

(* The variables of gen6_blorp_exec, and those of the shadow functions. *)
blorp == <<params, at, batch, dynamic>>

shadow == <<bitsPerPixel, displayWidth, virtualX, virtualY, scrWidth, scrHeight,
            rotate, ShadowPitch, ShadowPtr, FbBase, pc, pbox, arg, fbEntry,
            trace, PointerMoved, orig>>

config == <<bitsPerPixel, displayWidth, virtualX, virtualY, scrWidth,
            scrHeight, rotate, ShadowPitch, orig>>

----------------------------------------------------------------------------
(* Integer helpers of the C expressions. *)

(* a >> n on a signed int (arithmetic shift). *)
Shr(a, n) == a \div (2 ^ n)

(* A CARD32 is kept as its four bytes, least significant first: its value *)
(* is w[1] + 2^8 * w[2] + 2^16 * w[3] + 2^24 * w[4].                      *)
Word8(b) == <<b, 0, 0, 0>>

(* w << n for n a multiple of 8, kept to the 32 bits of a CARD32. *)
Shl(w, n) == [i \in 1..4 |-> IF i - (n \div 8) >= 1 THEN w[i - (n \div 8)] ELSE 0]

(* a | b on two bytes, bit by bit. *)
RECURSIVE BitOr8(_, _)
BitOr8(a, b) ==
    IF a = 0 THEN b
    ELSE IF b = 0 THEN a
    ELSE (IF a % 2 = 1 \/ b % 2 = 1 THEN 1 ELSE 0) + 2 * BitOr8(a \div 2, b \div 2)

(* a | b on two CARD32s. *)
BitOr(a, b) == [i \in 1..4 |-> BitOr8(a[i], b[i])]

(* y & ~m for a mask m = 2^k - 1 and y >= 0. *)
AndNot(y, m) == y - (y % (m + 1))

(* BitmapBytePad(bits): the bytes of a scanline of `bits` bits, padded to 32 bits. *)
BitmapBytePad(bits) == Shr(bits + 31, 5) * 4

(* The bytes of a CARD32 in memory order, as a little-endian store lays   *)
(* them out: the least significant byte at the lowest address.            *)
Bytes32(w) == <<w[1], w[2], w[3], w[4]>>

----------------------------------------------------------------------------
(* Geometry of the two buffers. *)

(* Logical width and height of the shadow buffer: the screen's own size,  *)
(* which under rotation is the transposed framebuffer size.                *)
ShadowW == IF rotate = 0 THEN virtualX ELSE virtualY
ShadowH == IF rotate = 0 THEN virtualY ELSE virtualX

ShadowSize == ShadowPitch * ShadowH

(* Bytes per pixel, and the framebuffer's stride in bytes as each function *)
(* computes it.                                                            *)
Bpp == Shr(bitsPerPixel, 3)
FBPitch == BitmapBytePad(displayWidth * bitsPerPixel)
FbStrideOf(dw) ==
    IF rotate = 0 \/ bitsPerPixel = 24
    THEN BitmapBytePad(dw * bitsPerPixel)
    ELSE dw * Bpp
FbStride == FbStrideOf(displayWidth)
FbSize == FbStride * virtualY

(* The dirty boxes within the shadow extents, and the lists of them. *)
BoxesIn(w, h) ==
    {b \in [x1 : 0..w, y1 : 0..h, x2 : 0..w, y2 : 0..h] : b.x1 <= b.x2 /\ b.y1 <= b.y2}

BoxLists(w, h, n) == UNION {[1..k -> BoxesIn(w, h)] : k \in 0..n}

----------------------------------------------------------------------------
(* Loads and stores. *)

(* What a load outside the shadow buffer may return. *)
Junk == {0, 255}

(* src[i] for a CARD8 *src: the byte at offset a; outside the buffer the   *)
(* load is undefined and returns junk.                                     *)
Load8(a, junk) == IF a \in DOMAIN ShadowPtr THEN ShadowPtr[a] ELSE junk

(* A CARD16 or CARD32 load at byte offset a (little-endian), as a CARD32. *)
Load16(a, junk) == <<Load8(a, junk), Load8(a + 1, junk), 0, 0>>

Load32(a, junk) ==
    <<Load8(a, junk), Load8(a + 1, junk), Load8(a + 2, junk), Load8(a + 3, junk)>>

(* One store of the call: the box it belongs to, the buffer the dst        *)
(* pointer was derived from, the byte offset from that buffer's start, the *)
(* bytes stored and, for each of them, the byte offset from ShadowPtr it   *)
(* was loaded from.  Every dst of the functions is derived from FbBase.    *)
Store(box, dst, bytes, src) ==
    [box |-> box, base |-> "FbBase", dst |-> dst, bytes |-> bytes, src |-> src]

(* The stores of tr through pointers derived from the given buffer. *)
StoresTo(base, tr) == SelectSeq(tr, LAMBDA e : e.base = base)

(* The bytes a store covers. *)
Covers(e) == e.dst .. (e.dst + Len(e.bytes) - 1)

(* Memory after the stores of tr, applied in order; a byte outside the     *)
(* buffer is not part of it.                                               *)
Apply(fb, tr) ==
    [a \in DOMAIN fb |->
        LET hits == {i \in DOMAIN tr : a \in Covers(tr[i])}
        IN  IF hits = {} THEN fb[a]
            ELSE LET last == CHOOSE i \in hits : \A k \in hits : k <= i
                 IN  tr[last].bytes[a - tr[last].dst + 1]]

----------------------------------------------------------------------------
(* cirRefreshArea: the plain copier. *)

(* A memcpy with its first two arguments exchanged: it copies framebuffer *)
(* bytes into the shadow buffer.                                           *)
memcpy_swapped(dst, src, n, box, junk) ==
    [box |-> box, base |-> "ShadowPtr", dst |-> src,
     bytes |-> [k \in 1..n |-> IF dst + k - 1 \in DOMAIN FbBase
                               THEN FbBase[dst + k - 1] ELSE junk],
     src |-> [k \in 1..n |-> src + k - 1]]

(* A memcpy that starts one byte late in the source. *)
memcpy_late(dst, src, n, box, junk) ==
    Store(box, dst, [k \in 1..n |-> Load8(src + k, junk)], [k \in 1..n |-> src + k])

(* memcpy(dst, src, n): one store of n bytes. *)
memcpy(dst, src, n, box, junk) ==
    Store(box, dst, [k \in 1..n |-> Load8(src + k - 1, junk)], [k \in 1..n |-> src + k - 1])

(* while(height--) { memcpy(dst, src, width); dst += FBPitch; src += ShadowPitch; } *)
RECURSIVE CopyLines(_, _, _, _, _, _)
CopyLines(src, dst, width, height, box, junk) ==
    IF height = 0 THEN <<>>
    ELSE <<memcpy(dst, src, width, box, junk)>>
            \o CopyLines(src + ShadowPitch, dst + FBPitch, width, height - 1, box, junk)

(* while(num--) { ...; pbox++; } from box i of the list on. *)
RECURSIVE RefreshAreaFrom(_, _, _)
RefreshAreaFrom(list, i, junk) ==
    IF i > Len(list) THEN <<>>
    ELSE LET b == list[i]
             width == (b.x2 - b.x1) * Bpp
             height == b.y2 - b.y1
             src == (b.y1 * ShadowPitch) + (b.x1 * Bpp)
             dst == (b.y1 * FBPitch) + (b.x1 * Bpp)
         IN  CopyLines(src, dst, width, height, i, junk) \o RefreshAreaFrom(list, i + 1, junk)

----------------------------------------------------------------------------
(* cirRefreshArea8: 8 bpp, four pixels of a column packed into one CARD32. *)

dstPitch8 == displayWidth
srcPitch8 == (-rotate) * ShadowPitch

(* A y1 used as it comes, without the mask. *)
AlignDown4_unmasked(y) == y

(* y1 = pbox->y1 & ~3;  y2 = (pbox->y2 + 3) & ~3 *)
AlignDown4(y) == AndNot(y, 3)
(* A y2 rounded up past the next boundary: (pbox->y2 + 4) & ~3. *)
AlignUp4_next(y) == AndNot(y + 4, 3)
AlignUp4(y) == AndNot(y + 3, 3)

(* src[0] | (src[srcPitch] << 8) | (src[srcPitch * 2] << 16) | (src[srcPitch * 3] << 24) *)
Pack8(src, junk) ==
    BitOr(BitOr(BitOr(Word8(Load8(src, junk)),
                      Shl(Word8(Load8(src + srcPitch8, junk)), 8)),
                Shl(Word8(Load8(src + srcPitch8 * 2, junk)), 16)),
          Shl(Word8(Load8(src + srcPitch8 * 3, junk)), 24))

(* A column loop that stops one packed word early. *)
RECURSIVE Column8_short(_, _, _, _, _)
Column8_short(src, dst, count, box, junk) ==
    IF count <= 1 THEN <<>>
    ELSE <<Store(box, dst, Bytes32(Pack8(src, junk)),
                 <<src, src + srcPitch8, src + srcPitch8 * 2, src + srcPitch8 * 3>>)>>
            \o Column8_short(src + srcPitch8 * 4, dst + 4, count - 1, box, junk)

(* while(count--) { *(dst++) = ...; src += srcPitch * 4; } *)
RECURSIVE Column8(_, _, _, _, _)
Column8(src, dst, count, box, junk) ==
    IF count = 0 THEN <<>>
    ELSE <<Store(box, dst, Bytes32(Pack8(src, junk)),
                 <<src, src + srcPitch8, src + srcPitch8 * 2, src + srcPitch8 * 3>>)>>
            \o Column8(src + srcPitch8 * 4, dst + 4, count - 1, box, junk)

(* while(width--) { ...; srcPtr += pCir->rotate; dstPtr += dstPitch; } *)
RECURSIVE Columns8(_, _, _, _, _, _)
Columns8(srcPtr, dstPtr, width, height, box, junk) ==
    IF width = 0 THEN <<>>
    ELSE Column8(srcPtr, dstPtr, height, box, junk)
            \o Columns8(srcPtr + rotate, dstPtr + dstPitch8, width - 1, height, box, junk)

RECURSIVE RefreshArea8From(_, _, _)
RefreshArea8From(list, i, junk) ==
    IF i > Len(list) THEN <<>>
    ELSE LET b == list[i]
             width == b.x2 - b.x1
             y1 == AlignDown4(b.y1)
             y2 == AlignUp4(b.y2)
             height == Shr(y2 - y1, 2)
             dstPtr == IF rotate = 1
                       THEN (b.x1 * dstPitch8) + virtualX - y2
                       ELSE ((virtualY - b.x2) * dstPitch8) + y1
             srcPtr == IF rotate = 1
                       THEN ((1 - y2) * srcPitch8) + b.x1
                       ELSE (y1 * srcPitch8) + b.x2 - 1
         IN  Columns8(srcPtr, dstPtr, width, height, i, junk)
                \o RefreshArea8From(list, i + 1, junk)

----------------------------------------------------------------------------
(* cirRefreshArea16: 16 bpp, two pixels of a column packed into one CARD32. *)
(* srcPtr, dstPtr and the pitches count CARD16s; loads and stores are      *)
(* recorded at byte offsets.                                               *)

dstPitch16 == displayWidth
srcPitch16 == Shr((-rotate) * ShadowPitch, 1)

(* y1 = pbox->y1 & ~1;  y2 = (pbox->y2 + 1) & ~1 *)
AlignDown2(y) == AndNot(y, 1)
AlignUp2(y) == AndNot(y + 1, 1)

(* src[0] | (src[srcPitch] << 16) *)
Pack16(src, junk) ==
    BitOr(Load16(2 * src, junk), Shl(Load16(2 * (src + srcPitch16), junk), 16))

(* while(count--) { *(dst++) = ...; src += srcPitch * 2; } with dst a CARD32*. *)
RECURSIVE Column16(_, _, _, _, _)
Column16(src, dst, count, box, junk) ==
    IF count = 0 THEN <<>>
    ELSE <<Store(box, dst, Bytes32(Pack16(src, junk)),
                 <<2 * src, (2 * src) + 1,
                   2 * (src + srcPitch16), (2 * (src + srcPitch16)) + 1>>)>>
            \o Column16(src + srcPitch16 * 2, dst + 4, count - 1, box, junk)

RECURSIVE Columns16(_, _, _, _, _, _)
Columns16(srcPtr, dstPtr, width, height, box, junk) ==
    IF width = 0 THEN <<>>
    ELSE Column16(srcPtr, 2 * dstPtr, height, box, junk)
            \o Columns16(srcPtr + rotate, dstPtr + dstPitch16, width - 1, height, box, junk)

(* A Rotate270 branch whose destination starts at row x1, as Rotate90's    *)
(* does, instead of at the mirrored row virtualY - x2.                     *)
RECURSIVE RefreshArea16From_unmirrored(_, _, _)
RefreshArea16From_unmirrored(list, i, junk) ==
    IF i > Len(list) THEN <<>>
    ELSE LET b == list[i]
             width == b.x2 - b.x1
             y1 == AlignDown2(b.y1)
             y2 == AlignUp2(b.y2)
             height == Shr(y2 - y1, 1)
             dstPtr == IF rotate = 1
                       THEN (b.x1 * dstPitch16) + virtualX - y2
                       ELSE (b.x1 * dstPitch16) + y1
             srcPtr == IF rotate = 1
                       THEN ((1 - y2) * srcPitch16) + b.x1
                       ELSE (y1 * srcPitch16) + b.x2 - 1
         IN  Columns16(srcPtr, dstPtr, width, height, i, junk)
                \o RefreshArea16From_unmirrored(list, i + 1, junk)

RECURSIVE RefreshArea16From(_, _, _)
RefreshArea16From(list, i, junk) ==
    IF i > Len(list) THEN <<>>
    ELSE LET b == list[i]
             width == b.x2 - b.x1
             y1 == AlignDown2(b.y1)
             y2 == AlignUp2(b.y2)
             height == Shr(y2 - y1, 1)
             dstPtr == IF rotate = 1
                       THEN (b.x1 * dstPitch16) + virtualX - y2
                       ELSE ((virtualY - b.x2) * dstPitch16) + y1
             srcPtr == IF rotate = 1
                       THEN ((1 - y2) * srcPitch16) + b.x1
                       ELSE (y1 * srcPitch16) + b.x2 - 1
         IN  Columns16(srcPtr, dstPtr, width, height, i, junk)
                \o RefreshArea16From(list, i + 1, junk)

----------------------------------------------------------------------------
(* cirRefreshArea24: 24 bpp, four 3-byte pixels of a column in three CARD32s. *)

(* A destination pitch without the scanline padding. *)
dstPitch24_unpadded == displayWidth * 3
dstPitch24 == BitmapBytePad(displayWidth * 24)
srcPitch24 == (-rotate) * ShadowPitch

(* dst[0] = src[0] | (src[1] << 8) | (src[2] << 16) | (src[srcPitch] << 24) *)
Pack24a(src, junk) ==
    BitOr(BitOr(BitOr(Word8(Load8(src, junk)),
                      Shl(Word8(Load8(src + 1, junk)), 8)),
                Shl(Word8(Load8(src + 2, junk)), 16)),
          Shl(Word8(Load8(src + srcPitch24, junk)), 24))

(* dst[1] = src[srcPitch + 1] | (src[srcPitch + 2] << 8) | (src[srcPitch * 2] << 16)
            | (src[(srcPitch * 2) + 1] << 24) *)
Pack24b(src, junk) ==
    BitOr(BitOr(BitOr(Word8(Load8(src + srcPitch24 + 1, junk)),
                      Shl(Word8(Load8(src + srcPitch24 + 2, junk)), 8)),
                Shl(Word8(Load8(src + srcPitch24 * 2, junk)), 16)),
          Shl(Word8(Load8(src + (srcPitch24 * 2) + 1, junk)), 24))

(* dst[2] = src[(srcPitch * 2) + 2] | (src[srcPitch * 3] << 8)
            | (src[(srcPitch * 3) + 1] << 16) | (src[(srcPitch * 3) + 2] << 24) *)
Pack24c(src, junk) ==
    BitOr(BitOr(BitOr(Word8(Load8(src + (srcPitch24 * 2) + 2, junk)),
                      Shl(Word8(Load8(src + srcPitch24 * 3, junk)), 8)),
                Shl(Word8(Load8(src + (srcPitch24 * 3) + 1, junk)), 16)),
          Shl(Word8(Load8(src + (srcPitch24 * 3) + 2, junk)), 24))

(* while(count--) { dst[0] = ...; dst[1] = ...; dst[2] = ...; dst += 3; src += srcPitch * 4; } *)
RECURSIVE Column24(_, _, _, _, _)
Column24(src, dst, count, box, junk) ==
    IF count = 0 THEN <<>>
    ELSE <<Store(box, dst, Bytes32(Pack24a(src, junk)),
                 <<src, src + 1, src + 2, src + srcPitch24>>),
           Store(box, dst + 4, Bytes32(Pack24b(src, junk)),
                 <<src + srcPitch24 + 1, src + srcPitch24 + 2, src + srcPitch24 * 2,
                   src + (srcPitch24 * 2) + 1>>),
           Store(box, dst + 8, Bytes32(Pack24c(src, junk)),
                 <<src + (srcPitch24 * 2) + 2, src + srcPitch24 * 3,
                   src + (srcPitch24 * 3) + 1, src + (srcPitch24 * 3) + 2>>)>>
            \o Column24(src + srcPitch24 * 4, dst + 12, count - 1, box, junk)

(* while(width--) { ...; srcPtr += pCir->rotate * 3; dstPtr += dstPitch; } *)
RECURSIVE Columns24(_, _, _, _, _, _)
Columns24(srcPtr, dstPtr, width, height, box, junk) ==
    IF width = 0 THEN <<>>
    ELSE Column24(srcPtr, dstPtr, height, box, junk)
            \o Columns24(srcPtr + rotate * 3, dstPtr + dstPitch24, width - 1, height, box, junk)

RECURSIVE RefreshArea24From(_, _, _)
RefreshArea24From(list, i, junk) ==
    IF i > Len(list) THEN <<>>
    ELSE LET b == list[i]
             width == b.x2 - b.x1
             y1 == AlignDown4(b.y1)
             y2 == AlignUp4(b.y2)
             height == Shr(y2 - y1, 2)
             dstPtr == IF rotate = 1
                       THEN (b.x1 * dstPitch24) + ((virtualX - y2) * 3)
                       ELSE ((virtualY - b.x2) * dstPitch24) + (y1 * 3)
             srcPtr == IF rotate = 1
                       THEN ((1 - y2) * srcPitch24) + (b.x1 * 3)
                       ELSE (y1 * srcPitch24) + (b.x2 * 3) - 3
         IN  Columns24(srcPtr, dstPtr, width, height, i, junk)
                \o RefreshArea24From(list, i + 1, junk)

----------------------------------------------------------------------------
(* cirRefreshArea32: 32 bpp, one pixel per store.  srcPtr, dstPtr and the  *)
(* pitches count CARD32s; loads and stores are recorded at byte offsets.   *)

(* A destination pitch taken from the visible width. *)
dstPitch32_visible == virtualX
dstPitch32 == displayWidth
(* A source pitch without the sign change: rotate * ShadowPitch >> 2. *)
srcPitch32_forward == Shr(rotate * ShadowPitch, 2)
(* A source pitch left in bytes. *)
srcPitch32_bytes == (-rotate) * ShadowPitch
srcPitch32 == Shr((-rotate) * ShadowPitch, 2)

(* while(count--) { *(dst++) = *src; src += srcPitch; } *)
RECURSIVE Column32(_, _, _, _, _)
Column32(src, dst, count, box, junk) ==
    IF count = 0 THEN <<>>
    ELSE <<Store(box, 4 * dst, Bytes32(Load32(4 * src, junk)),
                 <<4 * src, (4 * src) + 1, (4 * src) + 2, (4 * src) + 3>>)>>
            \o Column32(src + srcPitch32, dst + 1, count - 1, box, junk)

(* while(width--) { ...; srcPtr += pCir->rotate; dstPtr += dstPitch; } *)
RECURSIVE Columns32(_, _, _, _, _, _)
Columns32(srcPtr, dstPtr, width, height, box, junk) ==
    IF width = 0 THEN <<>>
    ELSE Column32(srcPtr, dstPtr, height, box, junk)
            \o Columns32(srcPtr + rotate, dstPtr + dstPitch32, width - 1, height, box, junk)

(* A loop that walks the box list from its end. *)
RECURSIVE RefreshArea32From_backwards(_, _, _)
RefreshArea32From_backwards(list, i, junk) ==
    IF i > Len(list) THEN <<>>
    ELSE LET b == list[i]
             width == b.x2 - b.x1
             height == b.y2 - b.y1
             dstPtr == IF rotate = 1
                       THEN (b.x1 * dstPitch32) + virtualX - b.y2
                       ELSE ((virtualY - b.x2) * dstPitch32) + b.y1
             srcPtr == IF rotate = 1
                       THEN ((1 - b.y2) * srcPitch32) + b.x1
                       ELSE (b.y1 * srcPitch32) + b.x2 - 1
         IN  RefreshArea32From_backwards(list, i + 1, junk)
                \o Columns32(srcPtr, dstPtr, width, height, i, junk)

RECURSIVE RefreshArea32From(_, _, _)
RefreshArea32From(list, i, junk) ==
    IF i > Len(list) THEN <<>>
    ELSE LET b == list[i]
             width == b.x2 - b.x1
             height == b.y2 - b.y1
             dstPtr == IF rotate = 1
                       THEN (b.x1 * dstPitch32) + virtualX - b.y2
                       ELSE ((virtualY - b.x2) * dstPitch32) + b.y1
             srcPtr == IF rotate = 1
                       THEN ((1 - b.y2) * srcPitch32) + b.x1
                       ELSE (b.y1 * srcPitch32) + b.x2 - 1
         IN  Columns32(srcPtr, dstPtr, width, height, i, junk)
                \o RefreshArea32From(list, i + 1, junk)

----------------------------------------------------------------------------
(* cirPointerMoved. *)

(* A transform with three symmetric cases: no rotation leaves (x, y) alone. *)
NewXYOf_symmetric(rot, width, height, x, y) ==
    IF rot = 1 THEN [x |-> height - y - 1, y |-> x]
    ELSE IF rot = -1 THEN [x |-> y, y |-> width - x - 1]
    ELSE [x |-> x, y |-> y]

(* A transform that forgets the - 1 of the mirrored axis. *)
NewXYOf_offbyone(rot, width, height, x, y) ==
    IF rot = 1
    THEN [x |-> height - y, y |-> x]
    ELSE [x |-> y, y |-> width - x]

(* The (newX, newY) computed for (x, y) on a width x height screen. *)
NewXYOf(rot, width, height, x, y) ==
    IF rot = 1
    THEN [x |-> height - y - 1, y |-> x]
    ELSE [x |-> y, y |-> width - x - 1]

NewXY(x, y) == NewXYOf(rotate, scrWidth, scrHeight, x, y)

(* The rotating function that ran, if one did. *)
Rotated == pc \in {"cirRefreshArea8", "cirRefreshArea16", "cirRefreshArea24", "cirRefreshArea32"}
Packed == pc \in {"cirRefreshArea8", "cirRefreshArea16", "cirRefreshArea24"}

(* The packing group size of the depth, and the group-aligned row range   *)
(* of a box.                                                               *)
GroupSize == IF bitsPerPixel = 16 THEN 2 ELSE IF bitsPerPixel = 32 THEN 1 ELSE 4
AlignedRows(b) ==
    (b.y1 - (b.y1 % GroupSize)) .. (b.y2 + ((GroupSize - (b.y2 % GroupSize)) % GroupSize) - 1)

----------------------------------------------------------------------------
(* The state machine: the adapter is configured, then one entry point is   *)
(* called and runs to completion.                                          *)

(* Extra pixels of framebuffer pitch beyond the visible width. *)
Pads == {0, 4}

(* Contents of the shadow buffer and of the framebuffer before the call. *)
Seeds == {3, 200}
ShadowFill(seed, a) == (seed + 37 * a) % 256
FbFill(a) == (85 + 5 * a) % 256

(* The adapter as the mode-setting code leaves it, for a shadow buffer of *)
(* at most maxw x maxh pixels.                                             *)
Setup(maxw, maxh) ==
    /\ bitsPerPixel \in {8, 16, 24, 32}
    /\ rotate \in {0, 1, -1}
    /\ \E w \in 1..maxw, h \in 1..maxh :
          /\ scrWidth = w
          /\ scrHeight = h
          /\ virtualX = IF rotate = 0 THEN w ELSE h
          /\ virtualY = IF rotate = 0 THEN h ELSE w
          /\ ShadowPitch = BitmapBytePad(bitsPerPixel * w)
    /\ displayWidth \in {virtualX + p : p \in Pads}
    /\ \E seed \in Seeds :
          ShadowPtr = [a \in 0..(ShadowSize - 1) |-> ShadowFill(seed, a)]
    /\ FbBase = [a \in 0..(FbSize - 1) |-> FbFill(a)]
    /\ pc = "idle"
    /\ pbox = <<>>
    /\ arg = [x |-> 0, y |-> 0]
    /\ fbEntry = FbBase
    /\ trace = <<>>
    /\ PointerMoved = <<>>
    /\ orig = ShadowPtr
    /\ params = [use_wm_prog |-> FALSE, depth_mt |-> FALSE, src_mt |-> FALSE,
                 num_samples |-> 0]
    /\ at = "none"
    /\ batch = <<>>
    /\ dynamic = <<>>

(* A refresh call: the function `name` ran over `list` and made the stores tr. *)
Refreshed(name, list, tr) ==
    /\ pc' = name
    /\ pbox' = list
    /\ fbEntry' = FbBase
    /\ trace' = tr
    /\ FbBase' = Apply(FbBase, StoresTo("FbBase", tr))
    /\ ShadowPtr' = Apply(ShadowPtr, StoresTo("ShadowPtr", tr))
    /\ UNCHANGED <<config, arg, PointerMoved, blorp>>

cirRefreshArea(n) ==
    /\ pc = "idle"
    /\ rotate = 0
    /\ \E list \in BoxLists(ShadowW, ShadowH, n), junk \in Junk :
          Refreshed("cirRefreshArea", list, RefreshAreaFrom(list, 1, junk))

cirRefreshArea8(n) ==
    /\ pc = "idle"
    /\ rotate # 0 /\ bitsPerPixel = 8
    /\ \E list \in BoxLists(ShadowW, ShadowH, n), junk \in Junk :
          Refreshed("cirRefreshArea8", list, RefreshArea8From(list, 1, junk))

cirRefreshArea16(n) ==
    /\ pc = "idle"
    /\ rotate # 0 /\ bitsPerPixel = 16
    /\ \E list \in BoxLists(ShadowW, ShadowH, n), junk \in Junk :
          Refreshed("cirRefreshArea16", list, RefreshArea16From(list, 1, junk))

cirRefreshArea24(n) ==
    /\ pc = "idle"
    /\ rotate # 0 /\ bitsPerPixel = 24
    /\ \E list \in BoxLists(ShadowW, ShadowH, n), junk \in Junk :
          Refreshed("cirRefreshArea24", list, RefreshArea24From(list, 1, junk))

cirRefreshArea32(n) ==
    /\ pc = "idle"
    /\ rotate # 0 /\ bitsPerPixel = 32
    /\ \E list \in BoxLists(ShadowW, ShadowH, n), junk \in Junk :
          Refreshed("cirRefreshArea32", list, RefreshArea32From(list, 1, junk))

(* The raw coordinates tried: up to the longer side of the screen. *)
RawCoords == 0 .. ((IF scrWidth > scrHeight THEN scrWidth ELSE scrHeight) - 1)

cirPointerMoved ==
    /\ pc = "idle"
    /\ \E x \in RawCoords, y \in RawCoords :
          /\ arg' = [x |-> x, y |-> y]
          /\ PointerMoved' = Append(PointerMoved, NewXY(x, y))
    /\ pc' = "cirPointerMoved"
    /\ UNCHANGED <<config, ShadowPtr, FbBase, pbox, fbEntry, trace, blorp>>

Init == Setup(MaxW, MaxH)

(* Calls with at most one box. *)
Next ==
    \/ cirRefreshArea(1)
    \/ cirRefreshArea8(1)
    \/ cirRefreshArea16(1)
    \/ cirRefreshArea24(1)
    \/ cirRefreshArea32(1)
    \/ cirPointerMoved

Spec == Init /\ [][Next]_vars

(* Calls with box lists, on small buffers. *)
InitList == Setup(ListW, ListH)

NextList ==
    \/ cirRefreshArea(MaxBoxes)
    \/ cirRefreshArea8(MaxBoxes)
    \/ cirRefreshArea16(MaxBoxes)
    \/ cirRefreshArea24(MaxBoxes)
    \/ cirRefreshArea32(MaxBoxes)
    \/ cirPointerMoved

SpecList == InitList /\ [][NextList]_vars

----------------------------------------------------------------------------
(* Round trips: a fully dirty buffer is blitted under Rotate90, the        *)
(* framebuffer is then taken as the shadow buffer and blitted under        *)
(* Rotate270.                                                              *)

FullBox == [x1 |-> 0, y1 |-> 0, x2 |-> ShadowW, y2 |-> ShadowH]

InitRT ==
    /\ Setup(RTMax, RTMax)
    /\ rotate = 1
    /\ ShadowW % GroupSize = 0
    /\ ShadowH % GroupSize = 0

(* The rotating function of the depth runs over the one box covering the  *)
(* whole shadow buffer.                                                    *)
RefreshAll ==
    /\ pc = "idle"
    /\ \E junk \in Junk :
          \/ bitsPerPixel = 8
              /\ Refreshed("cirRefreshArea8", <<FullBox>>, RefreshArea8From(<<FullBox>>, 1, junk))
          \/ bitsPerPixel = 16
              /\ Refreshed("cirRefreshArea16", <<FullBox>>, RefreshArea16From(<<FullBox>>, 1, junk))
          \/ bitsPerPixel = 24
              /\ Refreshed("cirRefreshArea24", <<FullBox>>, RefreshArea24From(<<FullBox>>, 1, junk))
          \/ bitsPerPixel = 32
              /\ Refreshed("cirRefreshArea32", <<FullBox>>, RefreshArea32From(<<FullBox>>, 1, junk))

(* The framebuffer just written becomes the shadow buffer of a Rotate270   *)
(* adapter: the pixels keep their (column, row), the two sizes swap.       *)
Retarget ==
    /\ Rotated
    /\ rotate = 1
    /\ rotate' = -1
    /\ virtualX' = virtualY
    /\ virtualY' = virtualX
    /\ scrWidth' = virtualX
    /\ scrHeight' = virtualY
    /\ ShadowPitch' = BitmapBytePad(bitsPerPixel * virtualX)
    /\ ShadowPtr' =
          [a \in 0 .. ((ShadowPitch' * virtualY) - 1) |->
              IF a % ShadowPitch' < virtualX * Bpp
              THEN FbBase[((a \div ShadowPitch') * FbStride) + (a % ShadowPitch')]
              ELSE 0]
    /\ displayWidth' \in {virtualX' + p : p \in Pads}
    /\ FbBase' = [a \in 0 .. ((FbStrideOf(displayWidth') * virtualY') - 1) |-> FbFill(a)]
    /\ fbEntry' = FbBase'
    /\ pc' = "idle"
    /\ pbox' = <<>>
    /\ trace' = <<>>
    /\ UNCHANGED <<bitsPerPixel, arg, PointerMoved, orig, blorp>>

NextRT == RefreshAll \/ Retarget

SpecRT == InitRT /\ [][NextRT]_vars

----------------------------------------------------------------------------
(* gen6_blorp_exec: the batch of one blit or render pass operation.  A     *)
(* packet is kept as the function that emitted it, the n of its            *)
(* BEGIN_BATCH(n), the command and the length field of its header dword    *)
(* and its dwords in order, each an OUT_BATCH or an OUT_RELOC with the     *)
(* expression written.  A call into another file of the driver that emits  *)
(* to the batch is kept as an entry of its own, without dwords.            *)

OUT_BATCH(v) == [op |-> "OUT_BATCH", v |-> v]
OUT_RELOC(bo) == [op |-> "OUT_RELOC", v |-> bo]

(* BEGIN_BATCH(n); OUT_BATCH(cmd << 16 | flags | len); body; ADVANCE_BATCH(); *)
Packet(fn, n, cmd, len, body) ==
    [own |-> TRUE, fn |-> fn, n |-> n, cmd |-> cmd, len |-> len,
     dw |-> <<OUT_BATCH(cmd)>> \o body]

Foreign(fn) == [own |-> FALSE, fn |-> fn, n |-> 0, cmd |-> fn, len |-> 0, dw |-> <<>>]

(* for (int i = 0; i < k; ++i) OUT_BATCH(0); *)
Zeros(k) == [i \in 1..k |-> OUT_BATCH("0")]

gen6_blorp_emit_state_base_address_batch ==
    <<Packet("gen6_blorp_emit_state_base_address", 10, "CMD_STATE_BASE_ADDRESS", 10 - 2,
             <<OUT_BATCH("mocs << 8 | mocs << 4 | 1"),
               OUT_RELOC("brw->batch.bo"),
               OUT_RELOC("brw->batch.bo"),
               OUT_BATCH("1"),
               IF params.use_wm_prog THEN OUT_RELOC("brw->cache.bo") ELSE OUT_BATCH("1"),
               OUT_BATCH("1"),
               OUT_BATCH("0xfffff001"),
               OUT_BATCH("1"),
               OUT_BATCH("1")>>)>>

(* const int num_buffers = 1; const int batch_length = 1 + 4 * num_buffers; *)
gen6_blorp_emit_vertex_buffer_state_batch ==
    LET num_buffers == 1
        batch_length == 1 + 4 * num_buffers
    IN  <<Packet("gen6_blorp_emit_vertex_buffer_state", batch_length,
                 "_3DSTATE_VERTEX_BUFFERS", batch_length - 2,
                 <<OUT_BATCH("dw0"),
                   OUT_RELOC("brw->batch.bo"),
                   OUT_RELOC("brw->batch.bo"),
                   OUT_BATCH("0")>>)>>

(* gen6_blorp_emit_vertices: the vertex buffer state, then             *)
(* const int num_elements = 2; const int batch_length = 1 + 2 * num_elements; *)
gen6_blorp_emit_vertices_batch ==
    LET num_elements == 2
        batch_length == 1 + 2 * num_elements
    IN  gen6_blorp_emit_vertex_buffer_state_batch
        \o <<Packet("gen6_blorp_emit_vertices", batch_length,
                    "_3DSTATE_VERTEX_ELEMENTS", batch_length - 2,
                    <<OUT_BATCH("element 0: VE0"), OUT_BATCH("element 0: VE1"),
                      OUT_BATCH("element 1: VE0"), OUT_BATCH("element 1: VE1")>>)>>

gen6_blorp_emit_urb_config_batch ==
    <<Packet("gen6_blorp_emit_urb_config", 3, "_3DSTATE_URB", 3 - 2,
             <<OUT_BATCH("brw->urb.max_vs_entries << GEN6_URB_VS_ENTRIES_SHIFT"),
               OUT_BATCH("0")>>)>>

gen6_blorp_emit_cc_state_pointers_batch ==
    <<Packet("gen6_blorp_emit_cc_state_pointers", 4, "_3DSTATE_CC_STATE_POINTERS", 4 - 2,
             <<OUT_BATCH("cc_blend_state_offset | 1"),
               OUT_BATCH("depthstencil_offset | 1"),
               OUT_BATCH("cc_state_offset | 1")>>)>>

gen6_blorp_emit_sampler_state_pointers_batch ==
    <<Packet("gen6_blorp_emit_sampler_state_pointers", 4,
             "_3DSTATE_SAMPLER_STATE_POINTERS", 4 - 2,
             <<OUT_BATCH("0"), OUT_BATCH("0"), OUT_BATCH("sampler_offset")>>)>>

gen6_blorp_emit_vs_disable_batch ==
    <<Packet("gen6_blorp_emit_vs_disable", 5, "_3DSTATE_CONSTANT_VS", 5 - 2, Zeros(4)),
      Packet("gen6_blorp_emit_vs_disable", 6, "_3DSTATE_VS", 6 - 2, Zeros(5))>>

gen6_blorp_emit_gs_disable_batch ==
    <<Packet("gen6_blorp_emit_gs_disable", 5, "_3DSTATE_CONSTANT_GS", 5 - 2, Zeros(4)),
      Packet("gen6_blorp_emit_gs_disable", 7, "_3DSTATE_GS", 7 - 2, Zeros(6))>>

gen6_blorp_emit_clip_disable_batch ==
    <<Packet("gen6_blorp_emit_clip_disable", 4, "_3DSTATE_CLIP", 4 - 2,
             <<OUT_BATCH("0"), OUT_BATCH("GEN6_CLIP_PERSPECTIVE_DIVIDE_DISABLE"),
               OUT_BATCH("0")>>)>>

(* An SF packet whose loop runs i < 15. *)
gen6_blorp_emit_sf_config_batch_short ==
    <<Packet("gen6_blorp_emit_sf_config", 20, "_3DSTATE_SF", 20 - 2,
             <<OUT_BATCH("params->num_varyings << GEN6_SF_NUM_OUTPUTS_SHIFT | ..."),
               OUT_BATCH("0"),
               OUT_BATCH(IF params.num_samples > 1 THEN "GEN6_SF_MSRAST_ON_PATTERN" ELSE "0")>>
             \o Zeros(15))>>

gen6_blorp_emit_sf_config_batch ==
    <<Packet("gen6_blorp_emit_sf_config", 20, "_3DSTATE_SF", 20 - 2,
             <<OUT_BATCH("params->num_varyings << GEN6_SF_NUM_OUTPUTS_SHIFT | ..."),
               OUT_BATCH("0"),
               OUT_BATCH(IF params.num_samples > 1 THEN "GEN6_SF_MSRAST_ON_PATTERN" ELSE "0")>>
             \o Zeros(16))>>

gen6_blorp_emit_wm_config_batch ==
    <<Packet("gen6_blorp_emit_wm_config", 9, "_3DSTATE_WM", 9 - 2,
             <<OUT_BATCH(IF params.use_wm_prog THEN "prog_offset" ELSE "0"),
               OUT_BATCH("dw2"), OUT_BATCH("0"), OUT_BATCH("dw4"), OUT_BATCH("dw5"),
               OUT_BATCH("dw6"), OUT_BATCH("0"), OUT_BATCH("0")>>)>>

gen6_blorp_emit_constant_ps_batch ==
    <<Packet("gen6_blorp_emit_constant_ps", 5, "_3DSTATE_CONSTANT_PS", 5 - 2,
             <<OUT_BATCH("wm_push_const_offset + (BRW_BLORP_NUM_PUSH_CONST_REGS - 1)"),
               OUT_BATCH("0"), OUT_BATCH("0"), OUT_BATCH("0")>>)>>

gen6_blorp_emit_constant_ps_disable_batch ==
    <<Packet("gen6_blorp_emit_constant_ps_disable", 5, "_3DSTATE_CONSTANT_PS", 5 - 2,
             Zeros(4))>>

gen6_blorp_emit_binding_table_pointers_batch ==
    <<Packet("gen6_blorp_emit_binding_table_pointers", 4,
             "_3DSTATE_BINDING_TABLE_POINTERS", 4 - 2,
             <<OUT_BATCH("0"), OUT_BATCH("0"), OUT_BATCH("wm_bind_bo_offset")>>)>>

gen6_blorp_emit_depth_stencil_config_batch ==
    <<Foreign("brw_emit_depth_stall_flushes"),
      Packet("gen6_blorp_emit_depth_stencil_config", 7, "_3DSTATE_DEPTH_BUFFER", 7 - 2,
             <<OUT_BATCH("dw1"), OUT_RELOC("params->depth.mt->bo"), OUT_BATCH("dw3"),
               OUT_BATCH("dw4"), OUT_BATCH("0"), OUT_BATCH("0")>>),
      Packet("gen6_blorp_emit_depth_stencil_config", 3, "_3DSTATE_HIER_DEPTH_BUFFER", 3 - 2,
             <<OUT_BATCH("hiz_mt->pitch - 1"), OUT_RELOC("hiz_mt->bo")>>),
      Packet("gen6_blorp_emit_depth_stencil_config", 3, "_3DSTATE_STENCIL_BUFFER", 3 - 2,
             Zeros(2))>>

gen6_blorp_emit_depth_disable_batch ==
    <<Foreign("brw_emit_depth_stall_flushes"),
      Packet("gen6_blorp_emit_depth_disable", 7, "_3DSTATE_DEPTH_BUFFER", 7 - 2,
             <<OUT_BATCH("BRW_DEPTHFORMAT_D32_FLOAT << 18 | BRW_SURFACE_NULL << 29")>>
             \o Zeros(5)),
      Packet("gen6_blorp_emit_depth_disable", 3, "_3DSTATE_HIER_DEPTH_BUFFER", 3 - 2,
             Zeros(2)),
      Packet("gen6_blorp_emit_depth_disable", 3, "_3DSTATE_STENCIL_BUFFER", 3 - 2,
             Zeros(2))>>

gen6_blorp_emit_clear_params_batch ==
    <<Packet("gen6_blorp_emit_clear_params", 2, "_3DSTATE_CLEAR_PARAMS", 2 - 2,
             <<OUT_BATCH(IF params.depth_mt THEN "params->depth.mt->depth_clear_value"
                         ELSE "0")>>)>>

gen6_blorp_emit_drawing_rectangle_batch ==
    <<Packet("gen6_blorp_emit_drawing_rectangle", 4, "_3DSTATE_DRAWING_RECTANGLE", 4 - 2,
             <<OUT_BATCH("0"), OUT_BATCH("x max | y max << 16"), OUT_BATCH("0")>>)>>

gen6_blorp_emit_viewport_state_batch ==
    <<Packet("gen6_blorp_emit_viewport_state", 4, "_3DSTATE_VIEWPORT_STATE_POINTERS", 4 - 2,
             <<OUT_BATCH("0"), OUT_BATCH("0"), OUT_BATCH("cc_vp_offset")>>)>>

gen6_blorp_emit_primitive_batch ==
    <<Packet("gen6_blorp_emit_primitive", 6, "CMD_3D_PRIM", 6 - 2,
             <<OUT_BATCH("3"), OUT_BATCH("0"), OUT_BATCH("params->num_layers"),
               OUT_BATCH("0"), OUT_BATCH("0")>>)>>

(* The body of gen6_blorp_exec as the call made after each call, with the  *)
(* order of the depth buffer packets and 3DSTATE_CLEAR_PARAMS exchanged.   *)
After_clear_first(call) ==
    CASE call = "gen6_blorp_exec" -> "brw_emit_post_sync_nonzero_flush"
      [] call = "brw_emit_post_sync_nonzero_flush" -> "gen6_emit_3dstate_multisample"
      [] call = "gen6_emit_3dstate_multisample" -> "gen6_emit_3dstate_sample_mask"
      [] call = "gen6_emit_3dstate_sample_mask" -> "gen6_blorp_emit_state_base_address"
      [] call = "gen6_blorp_emit_state_base_address" -> "gen6_blorp_emit_vertices"
      [] call = "gen6_blorp_emit_vertices" -> "gen6_blorp_emit_urb_config"
      [] call = "gen6_blorp_emit_urb_config" ->
            IF params.use_wm_prog THEN "gen6_blorp_emit_blend_state"
            ELSE "gen6_blorp_emit_depth_stencil_state"
      [] call = "gen6_blorp_emit_blend_state" -> "gen6_blorp_emit_cc_state"
      [] call = "gen6_blorp_emit_cc_state" -> "gen6_blorp_emit_depth_stencil_state"
      [] call = "gen6_blorp_emit_depth_stencil_state" -> "gen6_blorp_emit_cc_state_pointers"
      [] call = "gen6_blorp_emit_cc_state_pointers" ->
            IF params.use_wm_prog THEN "gen6_blorp_emit_wm_constants"
            ELSE "gen6_blorp_emit_vs_disable"
      [] call = "gen6_blorp_emit_wm_constants" -> "gen6_blorp_emit_surface_state dst"
      [] call = "gen6_blorp_emit_surface_state dst" ->
            IF params.src_mt THEN "gen6_blorp_emit_surface_state src"
            ELSE "gen6_blorp_emit_binding_table"
      [] call = "gen6_blorp_emit_surface_state src" -> "gen6_blorp_emit_binding_table"
      [] call = "gen6_blorp_emit_binding_table" -> "gen6_blorp_emit_sampler_state"
      [] call = "gen6_blorp_emit_sampler_state" -> "gen6_blorp_emit_sampler_state_pointers"
      [] call = "gen6_blorp_emit_sampler_state_pointers" -> "gen6_blorp_emit_vs_disable"
      [] call = "gen6_blorp_emit_vs_disable" -> "gen6_blorp_emit_gs_disable"
      [] call = "gen6_blorp_emit_gs_disable" -> "gen6_blorp_emit_clip_disable"
      [] call = "gen6_blorp_emit_clip_disable" -> "gen6_blorp_emit_sf_config"
      [] call = "gen6_blorp_emit_sf_config" ->
            IF params.use_wm_prog THEN "gen6_blorp_emit_constant_ps"
            ELSE "gen6_blorp_emit_constant_ps_disable"
      [] call = "gen6_blorp_emit_constant_ps" -> "gen6_blorp_emit_wm_config"
      [] call = "gen6_blorp_emit_constant_ps_disable" -> "gen6_blorp_emit_wm_config"
      [] call = "gen6_blorp_emit_wm_config" ->
            IF params.use_wm_prog THEN "gen6_blorp_emit_binding_table_pointers"
            ELSE "gen6_blorp_emit_viewport_state"
      [] call = "gen6_blorp_emit_binding_table_pointers" -> "gen6_blorp_emit_viewport_state"
      [] call = "gen6_blorp_emit_viewport_state" -> "gen6_blorp_emit_clear_params"
      [] call = "gen6_blorp_emit_clear_params" ->
            IF params.depth_mt THEN "gen6_blorp_emit_depth_stencil_config"
            ELSE "gen6_blorp_emit_depth_disable"
      [] call = "gen6_blorp_emit_depth_stencil_config" -> "gen6_blorp_emit_drawing_rectangle"
      [] call = "gen6_blorp_emit_depth_disable" -> "gen6_blorp_emit_drawing_rectangle"
      [] call = "gen6_blorp_emit_drawing_rectangle" -> "gen6_blorp_emit_primitive"
      [] call = "gen6_blorp_emit_primitive" -> "return"

(* The body of gen6_blorp_exec: the call made after each call. *)
After(call) ==
    CASE call = "gen6_blorp_exec" -> "brw_emit_post_sync_nonzero_flush"
      [] call = "brw_emit_post_sync_nonzero_flush" -> "gen6_emit_3dstate_multisample"
      [] call = "gen6_emit_3dstate_multisample" -> "gen6_emit_3dstate_sample_mask"
      [] call = "gen6_emit_3dstate_sample_mask" -> "gen6_blorp_emit_state_base_address"
      [] call = "gen6_blorp_emit_state_base_address" -> "gen6_blorp_emit_vertices"
      [] call = "gen6_blorp_emit_vertices" -> "gen6_blorp_emit_urb_config"
      [] call = "gen6_blorp_emit_urb_config" ->
            IF params.use_wm_prog THEN "gen6_blorp_emit_blend_state"
            ELSE "gen6_blorp_emit_depth_stencil_state"
      [] call = "gen6_blorp_emit_blend_state" -> "gen6_blorp_emit_cc_state"
      [] call = "gen6_blorp_emit_cc_state" -> "gen6_blorp_emit_depth_stencil_state"
      [] call = "gen6_blorp_emit_depth_stencil_state" -> "gen6_blorp_emit_cc_state_pointers"
      [] call = "gen6_blorp_emit_cc_state_pointers" ->
            IF params.use_wm_prog THEN "gen6_blorp_emit_wm_constants"
            ELSE "gen6_blorp_emit_vs_disable"
      [] call = "gen6_blorp_emit_wm_constants" -> "gen6_blorp_emit_surface_state dst"
      [] call = "gen6_blorp_emit_surface_state dst" ->
            IF params.src_mt THEN "gen6_blorp_emit_surface_state src"
            ELSE "gen6_blorp_emit_binding_table"
      [] call = "gen6_blorp_emit_surface_state src" -> "gen6_blorp_emit_binding_table"
      [] call = "gen6_blorp_emit_binding_table" -> "gen6_blorp_emit_sampler_state"
      [] call = "gen6_blorp_emit_sampler_state" -> "gen6_blorp_emit_sampler_state_pointers"
      [] call = "gen6_blorp_emit_sampler_state_pointers" -> "gen6_blorp_emit_vs_disable"
      [] call = "gen6_blorp_emit_vs_disable" -> "gen6_blorp_emit_gs_disable"
      [] call = "gen6_blorp_emit_gs_disable" -> "gen6_blorp_emit_clip_disable"
      [] call = "gen6_blorp_emit_clip_disable" -> "gen6_blorp_emit_sf_config"
      [] call = "gen6_blorp_emit_sf_config" ->
            IF params.use_wm_prog THEN "gen6_blorp_emit_constant_ps"
            ELSE "gen6_blorp_emit_constant_ps_disable"
      [] call = "gen6_blorp_emit_constant_ps" -> "gen6_blorp_emit_wm_config"
      [] call = "gen6_blorp_emit_constant_ps_disable" -> "gen6_blorp_emit_wm_config"
      [] call = "gen6_blorp_emit_wm_config" ->
            IF params.use_wm_prog THEN "gen6_blorp_emit_binding_table_pointers"
            ELSE "gen6_blorp_emit_viewport_state"
      [] call = "gen6_blorp_emit_binding_table_pointers" -> "gen6_blorp_emit_viewport_state"
      [] call = "gen6_blorp_emit_viewport_state" ->
            IF params.depth_mt THEN "gen6_blorp_emit_depth_stencil_config"
            ELSE "gen6_blorp_emit_depth_disable"
      [] call = "gen6_blorp_emit_depth_stencil_config" -> "gen6_blorp_emit_clear_params"
      [] call = "gen6_blorp_emit_depth_disable" -> "gen6_blorp_emit_clear_params"
      [] call = "gen6_blorp_emit_clear_params" -> "gen6_blorp_emit_drawing_rectangle"
      [] call = "gen6_blorp_emit_drawing_rectangle" -> "gen6_blorp_emit_primitive"
      [] call = "gen6_blorp_emit_primitive" -> "return"

(* One call of the body: it appends its packets to the batch and its       *)
(* brw_state_batch allocations to the dynamic state.                       *)
Call(fn, packets, states) ==
    /\ at' = After(fn)
    /\ batch' = batch \o packets
    /\ dynamic' = dynamic \o states
    /\ UNCHANGED <<params, shadow>>

gen6_blorp_exec ==
    /\ at = "gen6_blorp_exec"
    /\ Call("gen6_blorp_exec", <<>>, <<>>)
brw_emit_post_sync_nonzero_flush ==
    /\ at = "brw_emit_post_sync_nonzero_flush"
    /\ Call("brw_emit_post_sync_nonzero_flush",
            <<Foreign("brw_emit_post_sync_nonzero_flush")>>, <<>>)
gen6_emit_3dstate_multisample ==
    /\ at = "gen6_emit_3dstate_multisample"
    /\ Call("gen6_emit_3dstate_multisample",
            <<Foreign("gen6_emit_3dstate_multisample")>>, <<>>)
gen6_emit_3dstate_sample_mask ==
    /\ at = "gen6_emit_3dstate_sample_mask"
    /\ Call("gen6_emit_3dstate_sample_mask",
            <<Foreign("gen6_emit_3dstate_sample_mask")>>, <<>>)
gen6_blorp_emit_state_base_address ==
    /\ at = "gen6_blorp_emit_state_base_address"
    /\ Call("gen6_blorp_emit_state_base_address",
            gen6_blorp_emit_state_base_address_batch, <<>>)
gen6_blorp_emit_vertices ==
    /\ at = "gen6_blorp_emit_vertices"
    /\ Call("gen6_blorp_emit_vertices",
            gen6_blorp_emit_vertices_batch, <<"AUB_TRACE_VERTEX_BUFFER">>)
gen6_blorp_emit_urb_config ==
    /\ at = "gen6_blorp_emit_urb_config"
    /\ Call("gen6_blorp_emit_urb_config", gen6_blorp_emit_urb_config_batch, <<>>)
gen6_blorp_emit_blend_state ==
    /\ at = "gen6_blorp_emit_blend_state"
    /\ Call("gen6_blorp_emit_blend_state", <<>>, <<"AUB_TRACE_BLEND_STATE">>)
gen6_blorp_emit_cc_state ==
    /\ at = "gen6_blorp_emit_cc_state"
    /\ Call("gen6_blorp_emit_cc_state", <<>>, <<"AUB_TRACE_CC_STATE">>)
gen6_blorp_emit_depth_stencil_state ==
    /\ at = "gen6_blorp_emit_depth_stencil_state"
    /\ Call("gen6_blorp_emit_depth_stencil_state",
            <<>>, <<"AUB_TRACE_DEPTH_STENCIL_STATE">>)
gen6_blorp_emit_cc_state_pointers ==
    /\ at = "gen6_blorp_emit_cc_state_pointers"
    /\ Call("gen6_blorp_emit_cc_state_pointers",
            gen6_blorp_emit_cc_state_pointers_batch, <<>>)
gen6_blorp_emit_wm_constants ==
    /\ at = "gen6_blorp_emit_wm_constants"
    /\ Call("gen6_blorp_emit_wm_constants", <<>>, <<"AUB_TRACE_WM_CONSTANTS">>)
gen6_blorp_emit_surface_state(surface) ==
    /\ at = "gen6_blorp_emit_surface_state " \o surface
    /\ Call("gen6_blorp_emit_surface_state " \o surface,
            <<>>, <<"AUB_TRACE_SURFACE_STATE">>)
gen6_blorp_emit_binding_table ==
    /\ at = "gen6_blorp_emit_binding_table"
    /\ Call("gen6_blorp_emit_binding_table", <<>>, <<"AUB_TRACE_BINDING_TABLE">>)
gen6_blorp_emit_sampler_state ==
    /\ at = "gen6_blorp_emit_sampler_state"
    /\ Call("gen6_blorp_emit_sampler_state", <<>>, <<"AUB_TRACE_SAMPLER_STATE">>)
gen6_blorp_emit_sampler_state_pointers ==
    /\ at = "gen6_blorp_emit_sampler_state_pointers"
    /\ Call("gen6_blorp_emit_sampler_state_pointers",
            gen6_blorp_emit_sampler_state_pointers_batch, <<>>)
gen6_blorp_emit_vs_disable ==
    /\ at = "gen6_blorp_emit_vs_disable"
    /\ Call("gen6_blorp_emit_vs_disable", gen6_blorp_emit_vs_disable_batch, <<>>)
gen6_blorp_emit_gs_disable ==
    /\ at = "gen6_blorp_emit_gs_disable"
    /\ Call("gen6_blorp_emit_gs_disable", gen6_blorp_emit_gs_disable_batch, <<>>)
gen6_blorp_emit_clip_disable ==
    /\ at = "gen6_blorp_emit_clip_disable"
    /\ Call("gen6_blorp_emit_clip_disable", gen6_blorp_emit_clip_disable_batch, <<>>)
gen6_blorp_emit_sf_config ==
    /\ at = "gen6_blorp_emit_sf_config"
    /\ Call("gen6_blorp_emit_sf_config", gen6_blorp_emit_sf_config_batch, <<>>)
gen6_blorp_emit_constant_ps ==
    /\ at = "gen6_blorp_emit_constant_ps"
    /\ Call("gen6_blorp_emit_constant_ps", gen6_blorp_emit_constant_ps_batch, <<>>)
gen6_blorp_emit_constant_ps_disable ==
    /\ at = "gen6_blorp_emit_constant_ps_disable"
    /\ Call("gen6_blorp_emit_constant_ps_disable",
            gen6_blorp_emit_constant_ps_disable_batch, <<>>)
gen6_blorp_emit_wm_config ==
    /\ at = "gen6_blorp_emit_wm_config"
    /\ Call("gen6_blorp_emit_wm_config", gen6_blorp_emit_wm_config_batch, <<>>)
gen6_blorp_emit_binding_table_pointers ==
    /\ at = "gen6_blorp_emit_binding_table_pointers"
    /\ Call("gen6_blorp_emit_binding_table_pointers",
            gen6_blorp_emit_binding_table_pointers_batch, <<>>)
gen6_blorp_emit_viewport_state ==
    /\ at = "gen6_blorp_emit_viewport_state"
    /\ Call("gen6_blorp_emit_viewport_state",
            gen6_blorp_emit_viewport_state_batch, <<"AUB_TRACE_CC_VP_STATE">>)
gen6_blorp_emit_depth_stencil_config ==
    /\ at = "gen6_blorp_emit_depth_stencil_config"
    /\ Call("gen6_blorp_emit_depth_stencil_config",
            gen6_blorp_emit_depth_stencil_config_batch, <<>>)
gen6_blorp_emit_depth_disable ==
    /\ at = "gen6_blorp_emit_depth_disable"
    /\ Call("gen6_blorp_emit_depth_disable", gen6_blorp_emit_depth_disable_batch, <<>>)
gen6_blorp_emit_clear_params ==
    /\ at = "gen6_blorp_emit_clear_params"
    /\ Call("gen6_blorp_emit_clear_params", gen6_blorp_emit_clear_params_batch, <<>>)
gen6_blorp_emit_drawing_rectangle ==
    /\ at = "gen6_blorp_emit_drawing_rectangle"
    /\ Call("gen6_blorp_emit_drawing_rectangle",
            gen6_blorp_emit_drawing_rectangle_batch, <<>>)
gen6_blorp_emit_primitive ==
    /\ at = "gen6_blorp_emit_primitive"
    /\ Call("gen6_blorp_emit_primitive", gen6_blorp_emit_primitive_batch, <<>>)

(* The operations gen6_blorp_exec is called for: with or without a WM      *)
(* program, a depth miptree and a source miptree, single- or multisampled. *)
BlorpParams ==
    [use_wm_prog : BOOLEAN, depth_mt : BOOLEAN, src_mt : BOOLEAN, num_samples : {0, 4}]

InitBlorp ==
    /\ params \in BlorpParams
    /\ at = "gen6_blorp_exec"
    /\ batch = <<>>
    /\ dynamic = <<>>
    /\ bitsPerPixel = 8
    /\ displayWidth = 1
    /\ virtualX = 1
    /\ virtualY = 1
    /\ scrWidth = 1
    /\ scrHeight = 1
    /\ rotate = 0
    /\ ShadowPitch = 4
    /\ ShadowPtr = <<>>
    /\ FbBase = <<>>
    /\ pc = "none"
    /\ pbox = <<>>
    /\ arg = [x |-> 0, y |-> 0]
    /\ fbEntry = <<>>
    /\ trace = <<>>
    /\ PointerMoved = <<>>
    /\ orig = <<>>

NextBlorp ==
    \/ gen6_blorp_exec
    \/ brw_emit_post_sync_nonzero_flush
    \/ gen6_emit_3dstate_multisample
    \/ gen6_emit_3dstate_sample_mask
    \/ gen6_blorp_emit_state_base_address
    \/ gen6_blorp_emit_vertices
    \/ gen6_blorp_emit_urb_config
    \/ gen6_blorp_emit_blend_state
    \/ gen6_blorp_emit_cc_state
    \/ gen6_blorp_emit_depth_stencil_state
    \/ gen6_blorp_emit_cc_state_pointers
    \/ gen6_blorp_emit_wm_constants
    \/ gen6_blorp_emit_surface_state("dst")
    \/ gen6_blorp_emit_surface_state("src")
    \/ gen6_blorp_emit_binding_table
    \/ gen6_blorp_emit_sampler_state
    \/ gen6_blorp_emit_sampler_state_pointers
    \/ gen6_blorp_emit_vs_disable
    \/ gen6_blorp_emit_gs_disable
    \/ gen6_blorp_emit_clip_disable
    \/ gen6_blorp_emit_sf_config
    \/ gen6_blorp_emit_constant_ps
    \/ gen6_blorp_emit_constant_ps_disable
    \/ gen6_blorp_emit_wm_config
    \/ gen6_blorp_emit_binding_table_pointers
    \/ gen6_blorp_emit_viewport_state
    \/ gen6_blorp_emit_depth_stencil_config
    \/ gen6_blorp_emit_depth_disable
    \/ gen6_blorp_emit_clear_params
    \/ gen6_blorp_emit_drawing_rectangle
    \/ gen6_blorp_emit_primitive

SpecBlorp == InitBlorp /\ [][NextBlorp]_vars

----------------------------------------------------------------------------
(* Claims. *)

(* The bytes of pixel (col, row) of a buffer with the given stride. *)
PixelAt(mem, stride, col, row) ==
    [k \in 1..Bpp |-> mem[(row * stride) + (col * Bpp) + k - 1]]

(* C1: after cirRefreshArea, for every box of the list and every scanline *)
(* y in [y1,y2), the framebuffer bytes y*FBPitch + x1*Bpp ..              *)
(* y*FBPitch + x2*Bpp - 1 equal the shadow bytes y*ShadowPitch + x1*Bpp ..*)
(* y*ShadowPitch + x2*Bpp - 1, for every Bpp and also when the pitches    *)
(* differ.                                                                 *)
C1_NoRotationIdentity ==
    pc = "cirRefreshArea" =>
        \A i \in DOMAIN pbox :
            \A y \in pbox[i].y1 .. (pbox[i].y2 - 1) :
                \A k \in (pbox[i].x1 * Bpp) .. ((pbox[i].x2 * Bpp) - 1) :
                    FbBase[(y * FBPitch) + k] = ShadowPtr[(y * ShadowPitch) + k]

(* A two-box call at 24 bpp with differing pitches that changed the       *)
(* framebuffer, the second box two pixels wide and two scanlines high.    *)
C1_Witness ==
    /\ pc = "cirRefreshArea"
    /\ Bpp = 3
    /\ FBPitch # ShadowPitch
    /\ Len(pbox) = 2
    /\ pbox[1] # pbox[2]
    /\ pbox[2].x2 - pbox[2].x1 = 2
    /\ pbox[2].y2 - pbox[2].y1 = 2
    /\ FbBase # fbEntry

(* Where the rotation puts shadow pixel (x, y): framebuffer row x, column *)
(* virtualX-1-y under Rotate90; row virtualY-1-x, column y under Rotate270.*)
RotRow(x, y) == IF rotate = 1 THEN x ELSE virtualY - 1 - x
RotCol(x, y) == IF rotate = 1 THEN virtualX - 1 - y ELSE y

(* C2: after cirRefreshArea8/16/24 the framebuffer equals a pixel-by-pixel *)
(* reference copy: for every box, every x in [x1,x2) and every shadow row *)
(* y of the group-aligned row range, the bytes of shadow pixel (x,y) are, *)
(* in order, at framebuffer row x, column virtualX-1-y (Rotate90) or row  *)
(* virtualY-1-x, column y (Rotate270).                                     *)
C2_PackingCorrect ==
    Packed =>
        \A i \in DOMAIN pbox :
            \A x \in pbox[i].x1 .. (pbox[i].x2 - 1) :
                \A y \in AlignedRows(pbox[i]) \cap (0 .. (ShadowH - 1)) :
                    PixelAt(FbBase, FbStride, RotCol(x, y), RotRow(x, y))
                        = PixelAt(ShadowPtr, ShadowPitch, x, y)

(* The same for the shadow heights that are a multiple of the group size. *)
C2_PackingCorrectAligned ==
    ShadowH % GroupSize = 0 => C2_PackingCorrect


(* The shadow pixel <<x, y>> a shadow byte offset lies in, the framebuffer *)
(* pixel <<column, row>> a framebuffer byte offset lies in, and the        *)
(* position map of the call: the pairs <<shadow pixel, framebuffer pixel>> *)
(* with a byte loaded from the one and stored to the other.                *)
ShadowPixelOf(a) == <<(a % ShadowPitch) \div Bpp, a \div ShadowPitch>>
FbPixelOf(a) == <<(a % FbStride) \div Bpp, a \div FbStride>>
MovesOf(tr) ==
    {<<ShadowPixelOf(tr[i].src[k]), FbPixelOf(tr[i].dst + k - 1)>> :
        i \in DOMAIN tr, k \in 1..4}
Moves == MovesOf(trace)

Grid(w, h) == (0 .. (w - 1)) \X (0 .. (h - 1))

(* The moves pair every pixel of the W x H shadow grid with exactly one    *)
(* pixel of the H x W framebuffer grid, and the other way round.           *)
MovesBijective ==
    /\ \A m \in Moves : m[1] \in Grid(ShadowW, ShadowH) /\ m[2] \in Grid(ShadowH, ShadowW)
    /\ \A p \in Grid(ShadowW, ShadowH) : Cardinality({m \in Moves : m[1] = p}) = 1
    /\ \A q \in Grid(ShadowH, ShadowW) : Cardinality({m \in Moves : m[2] = q}) = 1

(* C3: for each depth and a fully dirty W x H shadow buffer, W and H       *)
(* multiples of the group size, the Rotate90 blit followed by the          *)
(* Rotate270 blit of its result gives back the original buffer pixel for   *)
(* pixel, and the position map of each of the two blits is a bijection     *)
(* between the source grid and the destination grid.                       *)
C3_RoundTrip ==
    Rotated =>
        /\ MovesBijective
        /\ rotate = -1 =>
              \A p \in Grid(virtualX, virtualY) :
                  PixelAt(FbBase, FbStride, p[1], p[2])
                      = PixelAt(orig, BitmapBytePad(bitsPerPixel * virtualX), p[1], p[2])

(* The end of a round trip of a 4 x 8 buffer at 8 bpp, through a           *)
(* framebuffer with padded scanlines.                                      *)
C3_Witness ==
    /\ Rotated
    /\ rotate = -1
    /\ bitsPerPixel = 8
    /\ virtualX = 4
    /\ virtualY = 8
    /\ displayWidth # virtualX
    /\ FbBase # fbEntry

(* C4: for a 32 bpp W x H shadow buffer and the one box covering it,     *)
(* cirRefreshArea32 under Rotate90 (virtualX = H) writes every pixel of   *)
(* the H x W destination exactly once, and destination pixel (column      *)
(* H-1-y, row x) equals shadow pixel (x,y).                                *)
C4_Transpose32 ==
    (pc = "cirRefreshArea32" /\ rotate = 1 /\ pbox = <<FullBox>>) =>
        /\ \A q \in Grid(ShadowH, ShadowW) :
              Cardinality({i \in DOMAIN trace :
                              trace[i].dst = (q[2] * FbStride) + (q[1] * 4)}) = 1
        /\ Len(trace) = ShadowW * ShadowH
        /\ \A p \in Grid(ShadowW, ShadowH) :
              PixelAt(FbBase, FbStride, ShadowH - 1 - p[2], p[1])
                  = PixelAt(ShadowPtr, ShadowPitch, p[1], p[2])

(* The full box of a 2 x 8 buffer blitted into a framebuffer with padded   *)
(* scanlines.                                                              *)
C4_Witness ==
    /\ pc = "cirRefreshArea32"
    /\ rotate = 1
    /\ pbox = <<FullBox>>
    /\ ShadowW = 2
    /\ ShadowH = 8
    /\ displayWidth # virtualX
    /\ FbBase # fbEntry

(* C5: every store of the rotating functions lands at a framebuffer row    *)
(* in [0,W) and a column in [0,H), for every box within the shadow         *)
(* extents, every depth, both rotations and every shadow height H.         *)
C5_NoWriteOutside ==
    Rotated =>
        \A i \in DOMAIN trace :
            \A a \in Covers(trace[i]) :
                /\ a >= 0
                /\ a \div FbStride < ShadowW
                /\ (a % FbStride) \div Bpp < ShadowH

(* C6: every source sample read by the rotating functions lies at a row    *)
(* in [0,H) and a column in [x1,x2) of the shadow buffer, for every box    *)
(* within the shadow extents.                                              *)
C6_NoReadOutside ==
    Rotated =>
        \A i \in DOMAIN trace :
            \A k \in DOMAIN trace[i].src :
                LET a == trace[i].src[k]
                    b == pbox[trace[i].box]
                IN  /\ a >= 0
                    /\ a \div ShadowPitch < ShadowH
                    /\ (a % ShadowPitch) \div Bpp >= b.x1
                    /\ (a % ShadowPitch) \div Bpp < b.x2

(* The two for the shadow heights that are a multiple of the group size. *)
C5_NoWriteOutsideAligned == ShadowH % GroupSize = 0 => C5_NoWriteOutside
C6_NoReadOutsideAligned == ShadowH % GroupSize = 0 => C6_NoReadOutside

(* The stores the function `name` makes over a box list. *)
RunOf(name, list, junk) ==
    CASE name = "cirRefreshArea" -> RefreshAreaFrom(list, 1, junk)
      [] name = "cirRefreshArea8" -> RefreshArea8From(list, 1, junk)
      [] name = "cirRefreshArea16" -> RefreshArea16From(list, 1, junk)
      [] name = "cirRefreshArea24" -> RefreshArea24From(list, 1, junk)
      [] name = "cirRefreshArea32" -> RefreshArea32From(list, 1, junk)

Refresh == Rotated \/ pc = "cirRefreshArea"

(* C7: cirPointerMoved calls the downstream handler exactly once, with     *)
(* (height - y - 1, x) under Rotate90 and (y, width - x - 1) in every      *)
(* other mode, no rotation included; on an 800 x 600 screen (10,5) gives   *)
(* (594,10) under Rotate90 and (5,789) otherwise.  No other function calls *)
(* the handler.                                                            *)
C7_PointerTransform ==
    /\ pc = "cirPointerMoved" =>
          /\ Len(PointerMoved) = 1
          /\ PointerMoved[1] =
                IF rotate = 1
                THEN [x |-> scrHeight - arg.y - 1, y |-> arg.x]
                ELSE [x |-> arg.y, y |-> scrWidth - arg.x - 1]
    /\ pc # "cirPointerMoved" => PointerMoved = <<>>
    /\ NewXYOf(1, 800, 600, 10, 5) = [x |-> 594, y |-> 10]
    /\ NewXYOf(0, 800, 600, 10, 5) = [x |-> 5, y |-> 789]
    /\ NewXYOf(-1, 800, 600, 10, 5) = [x |-> 5, y |-> 789]

(* A call without rotation on a 2 x 8 screen. *)
C7_Witness ==
    /\ pc = "cirPointerMoved"
    /\ rotate = 0
    /\ scrWidth = 2
    /\ scrHeight = 8
    /\ arg = [x |-> 1, y |-> 5]
    /\ PointerMoved = <<[x |-> 5, y |-> 0]>>

(* The position map of the rotating function of the depth over the one    *)
(* box covering the shadow buffer, for the pixels of the shadow grid.      *)
BlitMoves ==
    {m \in MovesOf(RunOf(CASE bitsPerPixel = 8 -> "cirRefreshArea8"
                           [] bitsPerPixel = 16 -> "cirRefreshArea16"
                           [] bitsPerPixel = 24 -> "cirRefreshArea24"
                           [] bitsPerPixel = 32 -> "cirRefreshArea32",
                         <<FullBox>>, 0)) :
        m[1] \in Grid(ShadowW, ShadowH)}

(* C8, as claimed: under either rotation, if the blit places shadow pixel  *)
(* (x,y) at framebuffer position (fx,fy), cirPointerMoved applied to       *)
(* (fx,fy) forwards (x,y).                                                 *)
C8_PointerInvertsBlit ==
    (pc = "cirPointerMoved" /\ rotate # 0) =>
        \A m \in BlitMoves :
            m[2] = <<arg.x, arg.y>> =>
                PointerMoved[1] = [x |-> m[1][1], y |-> m[1][2]]

(* C8, amended: under either rotation, cirPointerMoved applied to a        *)
(* position (x,y) of the W x H grid forwards the framebuffer position      *)
(* (column, row) at which the blit places shadow pixel (x,y): the pointer  *)
(* transform is the blit transform itself, not its inverse.                *)
C8_PointerFollowsBlit ==
    (pc = "cirPointerMoved" /\ rotate # 0 /\ <<arg.x, arg.y>> \in Grid(ShadowW, ShadowH)) =>
        {m[2] : m \in {n \in BlitMoves : n[1] = <<arg.x, arg.y>>}}
            = {<<PointerMoved[1].x, PointerMoved[1].y>>}

(* A call under Rotate270 on a 2 x 8 screen at 24 bpp. *)
C8_Witness ==
    /\ pc = "cirPointerMoved"
    /\ rotate = -1
    /\ bitsPerPixel = 24
    /\ scrWidth = 2
    /\ scrHeight = 8
    /\ arg = [x |-> 1, y |-> 5]

(* The stores of a call, were each box of the list handed over alone, in   *)
(* the order of the list.                                                  *)
RECURSIVE OneByOne(_, _, _)
OneByOne(list, i, junk) ==
    IF i > Len(list) THEN <<>>
    ELSE LET alone == RunOf(pc, <<list[i]>>, junk)
         IN  [k \in DOMAIN alone |-> [alone[k] EXCEPT !.box = i]]
                \o OneByOne(list, i + 1, junk)

(* C9: every refresh function handles the boxes of the list one at a time  *)
(* in the supplied order, each box exactly once, with all stores of box i  *)
(* before the first store of box i+1, and never merges boxes: its stores   *)
(* are those of the single boxes, one box after the other.                 *)
C9_BoxOrder ==
    Refresh =>
        /\ \A j, k \in DOMAIN trace : j < k => trace[j].box <= trace[k].box
        /\ \A k \in DOMAIN trace : trace[k].box \in DOMAIN pbox
        /\ \E junk \in Junk : trace = OneByOne(pbox, 1, junk)

(* A 32 bpp call over two different overlapping boxes, each with stores. *)
C9_Witness ==
    /\ pc = "cirRefreshArea32"
    /\ Len(pbox) = 2
    /\ pbox[1] = [x1 |-> 0, y1 |-> 0, x2 |-> 2, y2 |-> 1]
    /\ pbox[2] = [x1 |-> 1, y1 |-> 0, x2 |-> 2, y2 |-> 2]
    /\ \E j, k \in DOMAIN trace : trace[j].box = 1 /\ trace[k].box = 2

(* The box lists of at most MaxBoxes boxes with the same set of boxes. *)
SameBoxes(list) ==
    LET S == {list[i] : i \in DOMAIN list}
    IN  {l \in UNION {[1..k -> S] : k \in 0..MaxBoxes} : {l[i] : i \in DOMAIN l} = S}

(* C10: with the shadow buffer held fixed, the framebuffer after a refresh *)
(* depends only on the set of boxes in the list: a list with the same      *)
(* boxes repeated or in another order gives the same framebuffer.          *)
C10_OrderIrrelevant ==
    Refresh =>
        \A junk \in Junk :
            FbBase = Apply(fbEntry, RunOf(pc, pbox, junk)) =>
                \A l \in SameBoxes(pbox) : Apply(fbEntry, RunOf(pc, l, junk)) = FbBase

(* The same for the shadow heights that are a multiple of the group size. *)
C10_OrderIrrelevantAligned == ShadowH % GroupSize = 0 => C10_OrderIrrelevant

(* The framebuffer bytes of the given boxes: without rotation the bytes of *)
(* pixel columns x1..x2-1 on scanlines y1..y2-1; under rotation the bytes  *)
(* of the rotated image of each pixel (x, y) of a box.                     *)
BoxBytes ==
    IF rotate = 0
    THEN UNION {{(y * FBPitch) + k :
                    y \in pbox[i].y1 .. (pbox[i].y2 - 1),
                    k \in (pbox[i].x1 * Bpp) .. ((pbox[i].x2 * Bpp) - 1)} :
                i \in DOMAIN pbox}
    ELSE UNION {{(RotRow(x, y) * FbStride) + (RotCol(x, y) * Bpp) + k :
                    x \in pbox[i].x1 .. (pbox[i].x2 - 1),
                    y \in pbox[i].y1 .. (pbox[i].y2 - 1),
                    k \in 0 .. (Bpp - 1)} :
                i \in DOMAIN pbox}

(* C11: a refresh call changes a framebuffer byte only if the byte belongs *)
(* to a given box (no rotation: scanlines y1..y2-1, pixel columns          *)
(* x1..x2-1) or, under rotation, to the rotated image of a pixel of a      *)
(* given box; every other framebuffer byte, pitch padding included, keeps  *)
(* its value from before the call.                                         *)
C11_WritesWithinBoxes ==
    Refresh =>
        \A a \in DOMAIN FbBase : FbBase[a] # fbEntry[a] => a \in BoxBytes

(* The same for the copier and the 32 bpp function, which do not pack. *)
C11_WritesWithinBoxesUnpacked == ~Packed => C11_WritesWithinBoxes

(* C12: the shadow buffer is read-only for the core: no refresh function   *)
(* and no pointer-transform call changes any byte of the shadow buffer,    *)
(* nor the rotation mode, the pitches (ShadowPitch, and displayWidth and   *)
(* bitsPerPixel, which give the framebuffer's) or the extents the box list *)
(* is taken from.                                                          *)
C12_ShadowReadOnly ==
    [][(pc = "idle" /\ pc' # "idle") =>
          /\ ShadowPtr' = ShadowPtr
          /\ rotate' = rotate
          /\ ShadowPitch' = ShadowPitch
          /\ displayWidth' = displayWidth
          /\ bitsPerPixel' = bitsPerPixel
          /\ <<virtualX', virtualY', scrWidth', scrHeight'>>
                = <<virtualX, virtualY, scrWidth, scrHeight>>]_vars

(* A 16 bpp copy without rotation that changed the framebuffer and left    *)
(* the shadow buffer as it was set up.                                     *)
C12_Witness ==
    /\ pc = "cirRefreshArea"
    /\ bitsPerPixel = 16
    /\ FbBase # fbEntry
    /\ ShadowPtr = orig
    /\ \E i \in DOMAIN trace : trace[i].base = "FbBase"

(* The stores a function makes for one column of a box: one per scanline   *)
(* for the copier (a pixel of each memcpy) and at 32 bpp, one per packed   *)
(* group of the aligned row range at 8 and 16 bpp, three per group at      *)
(* 24 bpp.                                                                 *)
StoresPerColumn(b) ==
    IF pc \in {"cirRefreshArea", "cirRefreshArea32"} THEN b.y2 - b.y1
    ELSE (Cardinality(AlignedRows(b)) \div GroupSize) * (IF bitsPerPixel = 24 THEN 3 ELSE 1)

(* The stores of tr that belong to box i, counted in pixels for the        *)
(* copier's memcpy and in CARD32 stores for the rotating functions.        *)
RECURSIVE StoreCount(_, _)
StoreCount(tr, i) ==
    IF tr = <<>> THEN 0
    ELSE (IF Head(tr).box # i THEN 0
          ELSE IF pc = "cirRefreshArea" THEN Len(Head(tr).bytes) \div Bpp
          ELSE 1)
         + StoreCount(Tail(tr), i)

(* C13: for every box list with num >= 0 whose boxes satisfy x1 <= x2 and  *)
(* y1 <= y2, a refresh function returns after one pass of its outer loop   *)
(* per box: the stores of the call are finitely many, each belongs to one  *)
(* of the num boxes, and box i has exactly (x2 - x1) times the stores per  *)
(* column of them, so the call makes the sum of these over the boxes.      *)
C13_RunToCompletion ==
    Refresh =>
        /\ \A k \in DOMAIN trace : trace[k].box \in 1..Len(pbox)
        /\ \A i \in DOMAIN pbox :
              StoreCount(trace, i) = (pbox[i].x2 - pbox[i].x1) * StoresPerColumn(pbox[i])

(* An 8 bpp call over two boxes, two columns and one column wide, that     *)
(* made three stores.                                                      *)
C13_Witness ==
    /\ pc = "cirRefreshArea8"
    /\ Len(pbox) = 2
    /\ pbox[1].x2 - pbox[1].x1 = 2
    /\ pbox[2].x2 - pbox[2].x1 = 1
    /\ pbox[2].y1 < pbox[2].y2
    /\ Len(trace) = 3

(* The shadow scanlines the stores of box i were loaded from. *)
RowsRead(i) ==
    {trace[k].src[j] \div ShadowPitch :
        k \in {n \in DOMAIN trace : trace[n].box = i}, j \in 1..4}

(* The largest multiple of g that is at most y, and the smallest that is   *)
(* at least y.                                                             *)
RoundDown(y, g) == CHOOSE a \in 0..y : a % g = 0 /\ \A c \in 0..y : c % g = 0 => c <= a
RoundUp(y, g) ==
    CHOOSE a \in y..(y + g) : a % g = 0 /\ \A c \in y..(y + g) : c % g = 0 => a <= c

(* C14: for group size g = 4 (8 and 24 bpp) and g = 2 (16 bpp), the row    *)
(* range [y1',y2') a rotating function uses for a box is the smallest one  *)
(* with both ends multiples of g whose ends enclose [y1,y2): y1' is y1     *)
(* rounded down, y2' is y2 rounded up, y1 - y1' < g, y2' - y2 < g, the     *)
(* rows it reads in each column are y1'..y2'-1 and it packs (y2'-y1')/g    *)
(* groups per column; for 32 bpp the range is [y1,y2) unchanged.           *)
C14_AlignmentRule ==
    Rotated =>
        /\ GroupSize = (CASE bitsPerPixel = 8 -> 4 [] bitsPerPixel = 16 -> 2
                          [] bitsPerPixel = 24 -> 4 [] bitsPerPixel = 32 -> 1)
        /\ \A i \in DOMAIN pbox :
              LET b == pbox[i]
                  g == GroupSize
                  lo == RoundDown(b.y1, g)
                  hi == RoundUp(b.y2, g)
              IN  /\ b.y1 - lo < g
                  /\ hi - b.y2 < g
                  /\ bitsPerPixel = 32 => (lo = b.y1 /\ hi = b.y2)
                  /\ b.x1 < b.x2 => RowsRead(i) = lo .. (hi - 1)
                  /\ StoreCount(trace, i)
                        = (b.x2 - b.x1) * ((hi - lo) \div g)
                            * (IF bitsPerPixel = 24 THEN 3 ELSE 1)

(* A 24 bpp call for rows [5,7) of one column, which read rows 4..7. *)
C14_Witness ==
    /\ pc = "cirRefreshArea24"
    /\ Len(pbox) = 1
    /\ pbox[1].x1 < pbox[1].x2
    /\ pbox[1].y1 = 5
    /\ pbox[1].y2 = 7
    /\ RowsRead(1) = 4..7

(* The scanlines read for box i that lie outside its row range [y1,y2). *)
ExtraRows(i) == RowsRead(i) \ (pbox[i].y1 .. (pbox[i].y2 - 1))

(* C15, as claimed: for every box and every packed function, the number of *)
(* source scanlines read outside the row range [y1,y2) of the box is at    *)
(* most the group size less one (3 for 8 and 24 bpp, 1 for 16 bpp, 0 for   *)
(* 32 bpp).                                                                *)
C15_OverscanBound ==
    Rotated =>
        \A i \in DOMAIN pbox : Cardinality(ExtraRows(i)) <= GroupSize - 1

(* C15, amended: the scanlines read outside [y1,y2) number at most the     *)
(* group size less one on each side of the range, below y1 and from y2 on, *)
(* so at most twice that in all.                                           *)
C15_OverscanBoundPerSide ==
    Rotated =>
        \A i \in DOMAIN pbox :
            /\ Cardinality({y \in ExtraRows(i) : y < pbox[i].y1}) <= GroupSize - 1
            /\ Cardinality({y \in ExtraRows(i) : y >= pbox[i].y2}) <= GroupSize - 1
            /\ Cardinality(ExtraRows(i)) <= 2 * (GroupSize - 1)

(* An 8 bpp call for rows [3,5), which read rows 0..7: three extra rows on *)
(* each side.                                                              *)
C15_Witness ==
    /\ pc = "cirRefreshArea8"
    /\ Len(pbox) = 1
    /\ pbox[1].y1 = 3
    /\ pbox[1].y2 = 5
    /\ ExtraRows(1) = {0, 1, 2, 5, 6, 7}

(* The framebuffer position <<column, row>> of shadow pixel p = <<x, y>>   *)
(* under Rotate90, and the point reflection through the centre of the      *)
(* H x W framebuffer.                                                      *)
Rot90Of(p) == <<ShadowH - 1 - p[2], p[1]>>
Reflect(q) == <<ShadowH - 1 - q[1], ShadowW - 1 - q[2]>>

(* C16: for every pixel (x,y) of a W x H shadow buffer that a call covers, *)
(* the Rotate90 blit writes it to column H-1-y, row x, and the Rotate270   *)
(* blit writes it to the image of that position under the point reflection *)
(* (a,b) -> (H-1-a, W-1-b): Rotate270 is Rotate90 followed by the          *)
(* reflection.                                                             *)
C16_Rotate270IsReflectedRotate90 ==
    Rotated =>
        /\ \A m \in Moves :
              m[1] \in Grid(ShadowW, ShadowH) =>
                  m[2] = IF rotate = 1 THEN Rot90Of(m[1]) ELSE Reflect(Rot90Of(m[1]))
        /\ \A i \in DOMAIN pbox :
              \A x \in pbox[i].x1 .. (pbox[i].x2 - 1), y \in pbox[i].y1 .. (pbox[i].y2 - 1) :
                  \E m \in Moves : m[1] = <<x, y>>

(* A 16 bpp Rotate270 call over the whole of a 2 x 6 buffer. *)
C16_Witness ==
    /\ pc = "cirRefreshArea16"
    /\ rotate = -1
    /\ ShadowW = 2
    /\ ShadowH = 6
    /\ pbox = <<FullBox>>
    /\ <<<<1, 4>>, <<4, 0>>>> \in Moves

(* The stores of box i, and the shadow pixels <<x, y>> their bytes were    *)
(* loaded from, in the order of the loads.                                 *)
StoresOf(i) == SelectSeq(trace, LAMBDA e : e.box = i)

RECURSIVE SamplesOf(_)
SamplesOf(tr) ==
    IF tr = <<>> THEN <<>>
    ELSE [k \in 1..4 |-> ShadowPixelOf(Head(tr).src[k])] \o SamplesOf(Tail(tr))

(* Within one destination row, that is one shadow column, the stores of tr *)
(* go to increasing addresses.                                             *)
DstAdvances(tr) ==
    \A k \in 1 .. (Len(tr) - 1) :
        ShadowPixelOf(tr[k].src[1])[1] = ShadowPixelOf(tr[k + 1].src[1])[1]
            => tr[k + 1].dst > tr[k].dst

(* C17, as claimed: under Rotate90 the first source sample read for a box  *)
(* is shadow pixel (x1,y1) and, within one destination row, successive     *)
(* source samples are read at increasing shadow row y, while the           *)
(* destination pointer advances along the row.                             *)
C17_Rotate90Forward ==
    (Rotated /\ rotate = 1) =>
        \A i \in DOMAIN pbox :
            LET S == SamplesOf(StoresOf(i))
            IN  S # <<>> =>
                    /\ S[1] = <<pbox[i].x1, pbox[i].y1>>
                    /\ \A n \in 1 .. (Len(S) - 1) :
                          S[n][1] = S[n + 1][1] => S[n + 1][2] >= S[n][2]
                    /\ DstAdvances(StoresOf(i))

(* C17, amended: under Rotate90 the first source sample read for a box is  *)
(* shadow pixel (x1, y2'-1), the last row of the aligned row range, and    *)
(* within one destination row successive samples are read at decreasing    *)
(* shadow row y, down to y1', while the destination pointer advances along *)
(* the row.                                                                *)
C17_Rotate90Backward ==
    (Rotated /\ rotate = 1) =>
        \A i \in DOMAIN pbox :
            LET S == SamplesOf(StoresOf(i))
            IN  S # <<>> =>
                    /\ S[1] = <<pbox[i].x1, RoundUp(pbox[i].y2, GroupSize) - 1>>
                    /\ \A n \in 1 .. (Len(S) - 1) :
                          S[n][1] = S[n + 1][1] => S[n + 1][2] <= S[n][2]
                    /\ S[Len(S)] = <<pbox[i].x2 - 1, RoundDown(pbox[i].y1, GroupSize)>>
                    /\ DstAdvances(StoresOf(i))

(* A 32 bpp Rotate90 call for rows [2,5) of two columns: the first sample  *)
(* read is (0,4), the last (1,2).                                          *)
C17_Witness ==
    /\ pc = "cirRefreshArea32"
    /\ rotate = 1
    /\ pbox = <<[x1 |-> 0, y1 |-> 2, x2 |-> 2, y2 |-> 5]>>
    /\ SamplesOf(trace)[1] = <<0, 4>>
    /\ SamplesOf(trace)[Len(SamplesOf(trace))] = <<1, 2>>

(* The places in the batch of the packets with the given command. *)
PacketsOf(cmd) == {i \in DOMAIN batch : batch[i].own /\ batch[i].cmd = cmd}

(* The commands the comment on CMD_STATE_BASE_ADDRESS says must be         *)
(* reissued after the base addresses change.                               *)
Reissued ==
    {"_3DSTATE_CC_STATE_POINTERS", "_3DSTATE_BINDING_TABLE_POINTERS",
     "_3DSTATE_SAMPLER_STATE_POINTERS", "_3DSTATE_VIEWPORT_STATE_POINTERS"}

(* C18: in every run of gen6_blorp_exec, after CMD_STATE_BASE_ADDRESS is   *)
(* emitted, each of 3DSTATE_CC_STATE_POINTERS,                             *)
(* 3DSTATE_BINDING_TABLE_POINTERS, 3DSTATE_SAMPLER_STATE_POINTERS and      *)
(* 3DSTATE_VIEWPORT_STATE_POINTERS is emitted before the 3DPRIMITIVE, for  *)
(* both values of params->use_wm_prog.                                     *)
C18_PointersReissued ==
    \A p \in PacketsOf("CMD_3D_PRIM") :
        \A cmd \in Reissued :
            \E b \in PacketsOf("CMD_STATE_BASE_ADDRESS"), i \in PacketsOf(cmd) :
                b < i /\ i < p

(* The same for the runs with a WM program, and for the two commands that  *)
(* do not depend on it.                                                    *)
C18_PointersReissuedWithProgram ==
    \A p \in PacketsOf("CMD_3D_PRIM") :
        \A cmd \in Reissued :
            (params.use_wm_prog
                \/ cmd \in {"_3DSTATE_CC_STATE_POINTERS", "_3DSTATE_VIEWPORT_STATE_POINTERS"})
            => \E b \in PacketsOf("CMD_STATE_BASE_ADDRESS"), i \in PacketsOf(cmd) :
                  b < i /\ i < p

(* C19: in every run of gen6_blorp_exec, 3DSTATE_CLEAR_PARAMS is emitted   *)
(* exactly once, after the 3DSTATE_DEPTH_BUFFER packet of the run (from    *)
(* the depth-stencil config when params->depth.mt is set, from the depth   *)
(* disable otherwise), with no later 3DSTATE_DEPTH_BUFFER packet, and      *)
(* before the single 3DPRIMITIVE, which is the last packet emitted.        *)
C19_ClearParamsFollowsDepthBuffer ==
    /\ \A c \in PacketsOf("_3DSTATE_CLEAR_PARAMS") :
          /\ PacketsOf("_3DSTATE_CLEAR_PARAMS") = {c}
          /\ \E d \in PacketsOf("_3DSTATE_DEPTH_BUFFER") :
                /\ PacketsOf("_3DSTATE_DEPTH_BUFFER") = {d}
                /\ d < c
                /\ batch[d].fn = IF params.depth_mt
                                 THEN "gen6_blorp_emit_depth_stencil_config"
                                 ELSE "gen6_blorp_emit_depth_disable"
          /\ \A p \in PacketsOf("CMD_3D_PRIM") : c < p
    /\ \A p \in PacketsOf("CMD_3D_PRIM") :
          /\ PacketsOf("CMD_3D_PRIM") = {p}
          /\ p = Len(batch)
          /\ PacketsOf("_3DSTATE_CLEAR_PARAMS") # {}
    /\ at = "return" => PacketsOf("CMD_3D_PRIM") # {}

(* The end of a run with a depth miptree and no WM program. *)
C19_Witness ==
    /\ at = "return"
    /\ params.depth_mt
    /\ ~params.use_wm_prog
    /\ PacketsOf("_3DSTATE_CLEAR_PARAMS") # {}
    /\ batch[Len(batch)].cmd = "CMD_3D_PRIM"

(* C20: in every emit function of gen6_blorp.cpp and on every branch, the  *)
(* number of dwords written (OUT_BATCH plus OUT_RELOC) between             *)
(* BEGIN_BATCH(n) and the matching ADVANCE_BATCH is exactly n, and the     *)
(* length field of the packet's header dword is n - 2.                     *)
C20_PacketLength ==
    \A i \in DOMAIN batch :
        batch[i].own =>
            /\ Len(batch[i].dw) = batch[i].n
            /\ \A k \in DOMAIN batch[i].dw : batch[i].dw[k].op \in {"OUT_BATCH", "OUT_RELOC"}
            /\ batch[i].len = batch[i].n - 2

(* The end of a run with a WM program, a source and a depth miptree: 22    *)
(* packets of this file, the 20-dword 3DSTATE_SF and the relocated         *)
(* instruction base address among them.                                    *)
C20_Witness ==
    /\ at = "return"
    /\ params.use_wm_prog
    /\ params.src_mt
    /\ params.depth_mt
    /\ Cardinality({i \in DOMAIN batch : batch[i].own}) = 22
    /\ \E i \in PacketsOf("_3DSTATE_SF") : Len(batch[i].dw) = 20
    /\ \E i \in PacketsOf("CMD_STATE_BASE_ADDRESS") : batch[i].dw[6].op = "OUT_RELOC"

(* A box with no pixels: no columns or no rows. *)
Empty(b) == b.x1 = b.x2 \/ b.y1 = b.y2

(* No byte is written by the call: it makes no store, or only memcpy      *)
(* calls of length 0.                                                      *)
NoByteStored == \A i \in DOMAIN trace : trace[i].bytes = <<>>

(* C21: a call of cirRefreshArea or cirRefreshArea8/16/24/32 whose boxes   *)
(* are all empty (x1 == x2 or y1 == y2), at any coordinates within the     *)
(* buffer, performs no store and leaves the framebuffer as it was.         *)
C21_EmptyBoxWritesNothing ==
    (Refresh /\ \A i \in DOMAIN pbox : Empty(pbox[i])) =>
        /\ NoByteStored
        /\ FbBase = fbEntry

(* C21 for the boxes the code does treat as empty: those without columns,  *)
(* those without rows whose y1 == y2 is a multiple of the group size, and  *)
(* every empty box of cirRefreshArea and cirRefreshArea32.                 *)
C21_EmptyBoxWritesNothingOnGroupEdge ==
    (Refresh /\ \A i \in DOMAIN pbox :
                    \/ pbox[i].x1 = pbox[i].x2
                    \/ pbox[i].y1 = pbox[i].y2 /\ (~Packed \/ pbox[i].y1 % GroupSize = 0)) =>
        /\ NoByteStored
        /\ FbBase = fbEntry

(* The framebuffer positions <<column, row>> at which the rotating blit of *)
(* the depth stores shadow pixel p.                                        *)
BlitOf(p) == {m[2] : m \in {n \in BlitMoves : n[1] = p}}

(* The point cirPointerMoved forwards for the logical position p.          *)
Forwarded(p) == <<NewXY(p[1], p[2]).x, NewXY(p[1], p[2]).y>>

(* C22: under either rotation, with the screen height equal to virtualX    *)
(* (Rotate90) or the screen width equal to virtualY (Rotate270), the call  *)
(* of cirPointerMoved for a position (x,y) of the W x H grid forwards      *)
(* (virtualX - y - 1, x) resp. (y, virtualY - x - 1); for every position   *)
(* of the grid the forwarded point is the one (column, row) at which the   *)
(* rotating blit stores that shadow pixel, it lies inside the H x W        *)
(* framebuffer grid, and two different positions are forwarded to two      *)
(* different points.                                                       *)
C22_PointerAgreesWithBlit ==
    (/\ pc = "cirPointerMoved"
     /\ rotate = 1 => scrHeight = virtualX
     /\ rotate = -1 => scrWidth = virtualY
     /\ rotate # 0) =>
        /\ <<arg.x, arg.y>> \in Grid(ShadowW, ShadowH) =>
              <<PointerMoved[1].x, PointerMoved[1].y>> =
                  IF rotate = 1
                  THEN <<virtualX - arg.y - 1, arg.x>>
                  ELSE <<arg.y, virtualY - arg.x - 1>>
        /\ \A p \in Grid(ShadowW, ShadowH) :
              /\ BlitOf(p) = {Forwarded(p)}
              /\ Forwarded(p) \in Grid(ShadowH, ShadowW)
              /\ \A q \in Grid(ShadowW, ShadowH) :
                    Forwarded(p) = Forwarded(q) => p = q

(* A call under Rotate90 on a 2 x 8 screen at 24 bpp, for the position     *)
(* (1,5), forwarded to column 2 of row 1.                                  *)
C22_Witness ==
    /\ pc = "cirPointerMoved"
    /\ rotate = 1
    /\ bitsPerPixel = 24
    /\ scrWidth = 2
    /\ scrHeight = 8
    /\ virtualX = 8
    /\ arg = [x |-> 1, y |-> 5]
    /\ PointerMoved = <<[x |-> 2, y |-> 1]>>
    /\ BlitOf(<<1, 5>>) = {<<2, 1>>}

====
